---- MODULE Spec2Model ----
(***************************************************************************)
(* Model of the Consoler class (src/consoler/index.ts): a logging facade   *)
(* whose categories are gated by the "verbose" entry of localStorage.      *)
(*                                                                         *)
(* JavaScript strings are sequences of one-character strings, so that      *)
(* toUpperCase, join, split, replace and the regular-expression matches    *)
(* are computed character by character.  An optional value (T | undefined  *)
(* | null) is a sequence of length at most one: <<>> is absent, <<v>> is   *)
(* the value v.                                                            *)
(***************************************************************************)
EXTENDS Integers, Sequences, FiniteSets, TLC

None == <<>>
Some(v) == <<v>>

----------------------------------------------------------------------------
(* String primitives of the host language.                                 *)

\* One character of String.prototype.toUpperCase: the letters a-z change,
\* every other character stays.
UpperOf ==
  [c \in {"a","b","c","d","e","f","g","h","i","j","k","l","m",
          "n","o","p","q","r","s","t","u","v","w","x","y","z"} |->
     CASE c = "a" -> "A" [] c = "b" -> "B" [] c = "c" -> "C" [] c = "d" -> "D"
       [] c = "e" -> "E" [] c = "f" -> "F" [] c = "g" -> "G" [] c = "h" -> "H"
       [] c = "i" -> "I" [] c = "j" -> "J" [] c = "k" -> "K" [] c = "l" -> "L"
       [] c = "m" -> "M" [] c = "n" -> "N" [] c = "o" -> "O" [] c = "p" -> "P"
       [] c = "q" -> "Q" [] c = "r" -> "R" [] c = "s" -> "S" [] c = "t" -> "T"
       [] c = "u" -> "U" [] c = "v" -> "V" [] c = "w" -> "W" [] c = "x" -> "X"
       [] c = "y" -> "Y" [] c = "z" -> "Z"]

UpperChar(c) == IF c \in DOMAIN UpperOf THEN UpperOf[c] ELSE c

\* String.prototype.toUpperCase.
RECURSIVE toUpperCase(_)
toUpperCase(s) ==
  IF s = <<>> THEN <<>> ELSE <<UpperChar(Head(s))>> \o toUpperCase(Tail(s))

\* Array.prototype.join(sep), also Array.prototype.toString (sep = ",").
RECURSIVE join(_, _)
join(list, sep) ==
  IF list = <<>> THEN <<>>
  ELSE IF Len(list) = 1 THEN list[1]
  ELSE list[1] \o sep \o join(Tail(list), sep)

\* String.prototype.split(ch) for a one-character separator.
RECURSIVE splitFrom(_, _, _)
splitFrom(s, ch, cur) ==
  IF s = <<>> THEN <<cur>>
  ELSE IF Head(s) = ch THEN <<cur>> \o splitFrom(Tail(s), ch, <<>>)
  ELSE splitFrom(Tail(s), ch, Append(cur, Head(s)))
split(s, ch) == splitFrom(s, ch, <<>>)

\* String.prototype.replace(ch, "") with a string pattern: only the first
\* occurrence is removed.
RECURSIVE replaceFirst(_, _)
replaceFirst(s, ch) ==
  IF s = <<>> THEN <<>>
  ELSE IF Head(s) = ch THEN Tail(s)
  ELSE <<Head(s)>> \o replaceFirst(Tail(s), ch)

\* t occurs in s as a contiguous substring (the plain, non-regex notion).
IsSubstring(t, s) ==
  \E i \in 1..(Len(s) - Len(t) + 1) :
    \A k \in 1..Len(t) : s[i + k - 1] = t[k]

----------------------------------------------------------------------------
(* Regular expressions.  The patterns the class builds consist of literal  *)
(* characters, the wildcard ".", capture groups and a top-level "|".       *)
(* A compiled expression is the sequence of its alternatives, each a       *)
(* sequence of pattern characters with the group parentheses removed.      *)

RECURSIVE stripParens(_)
stripParens(p) ==
  IF p = <<>> THEN <<>>
  ELSE IF Head(p) \in {"(", ")"} THEN stripParens(Tail(p))
  ELSE <<Head(p)>> \o stripParens(Tail(p))

RECURSIVE stripEach(_)
stripEach(parts) ==
  IF parts = <<>> THEN <<>>
  ELSE <<stripParens(Head(parts))>> \o stripEach(Tail(parts))

\* new RegExp(source): the alternatives of the source, in order.
RegExpOf(source) == stripEach(split(source, "|"))

\* One pattern character against one subject character.
CharMatches(p, c) == p = "." \/ p = c

\* Alternative alt matches the subject s starting at position i.
MatchesAt(alt, s, i) ==
  /\ i + Len(alt) - 1 <= Len(s)
  /\ \A k \in 1..Len(alt) : CharMatches(alt[k], s[i + k - 1])

\* The first alternative (in source order) that matches at i, or 0.
RECURSIVE firstAltFrom(_, _, _, _)
firstAltFrom(re, s, i, a) ==
  IF a > Len(re) THEN 0
  ELSE IF MatchesAt(re[a], s, i) THEN a
  ELSE firstAltFrom(re, s, i, a + 1)
FirstAltAt(re, s, i) == firstAltFrom(re, s, i, 1)

\* String.prototype.match(re) without the g flag: truthy iff re matches
\* somewhere in s.
TestMatch(s, re) ==
  \E i \in 1..(Len(s) + 1) : FirstAltAt(re, s, i) # 0

\* String.prototype.match(re) with the g flag: every match, left to right,
\* without overlap; an empty list stands for the null result.
RECURSIVE matchAllFrom(_, _, _)
matchAllStep(s, re, i, a) ==
  IF a = 0 THEN matchAllFrom(s, re, i + 1)
  ELSE IF Len(re[a]) = 0 THEN <<<<>>>> \o matchAllFrom(s, re, i + 1)
  ELSE <<SubSeq(s, i, i + Len(re[a]) - 1)>>
         \o matchAllFrom(s, re, i + Len(re[a]))
matchAllFrom(s, re, i) ==
  IF i > Len(s) + 1 THEN <<>>
  ELSE matchAllStep(s, re, i, FirstAltAt(re, s, i))
MatchAll(s, re) == matchAllFrom(s, re, 1)

----------------------------------------------------------------------------
(* Literals of the class.                                                  *)

INFO == <<"I","N","F","O">>
WARN == <<"W","A","R","N">>
ERROR == <<"E","R","R","O","R">>
SUCCESS == <<"S","U","C","C","E","S","S">>

\* The identifier prefix of every label ("consoler:INFO", "consoler:" + tag).
ConsolerPrefix == <<"c","o","n","s","o","l","e","r",":">>

\* The colors of log, warn, error and success.
InfoColor == <<"#","0","3","a","9","f","4">>
WarnColor == <<"#","f","f","c","1","0","7">>
ErrorColor == <<"#","f","5","5","6","5","6">>
SuccessColor == <<"#","1","9","c","7","2","0">>

\* staticRegStr of _getRegex.
staticRegStr == <<"(","I","N","F","O",")","|","(","W","A","R","N",")","|","(","S","U","C","C","E","S","S",")","|","(","E","R","R","O","R",")">>

\* The first argument of the success call made by _setDefaultOptions.
NowYouCanSee == "Now you can see : ("

----------------------------------------------------------------------------
(* helper.isHex: an optional "#" followed by 3 or 6 hexadecimal digits.    *)

HexDigits ==
  {"0","1","2","3","4","5","6","7","8","9",
   "a","b","c","d","e","f","A","B","C","D","E","F"}

isHex(color) ==
  LET digits == IF color # <<>> /\ Head(color) = "#" THEN Tail(color) ELSE color
  IN  /\ Len(digits) \in {3, 6}
      /\ \A i \in 1..Len(digits) : digits[i] \in HexDigits

----------------------------------------------------------------------------
(* Pure methods of Consoler.  "store" is the value of                      *)
(* localStorage.getItem("verbose"): None for null, Some(string) otherwise. *)

\* _getLocalVerbose: undefined for a missing or empty entry, else the entry
\* in upper case.
_getLocalVerbose(store) ==
  IF store # None /\ store[1] # <<>> THEN Some(toUpperCase(store[1])) ELSE None

\* _searchInLocalVerbose: String.prototype.match with a string argument
\* compiles the argument as a regular expression.
_searchInLocalVerbose(store, value) ==
  LET localverbose == _getLocalVerbose(store)
      refinedValue == toUpperCase(value)
  IN  IF localverbose # None
        THEN TestMatch(localverbose[1], RegExpOf(refinedValue))
        ELSE FALSE

\* Object.keys(this.tags): the names of the tags mapping, in insertion order.
RECURSIVE tagsNamesOf(_)
tagsNamesOf(tagsObj) ==
  IF tagsObj = <<>> THEN <<>>
  ELSE <<Head(tagsObj).name>> \o tagsNamesOf(Tail(tagsObj))

\* _getRegex: the alternation of the built-in names and the upper-cased tag
\* names; tagsNames is None when this.tags is undefined.
RECURSIVE regexPieces(_)
regexPieces(names) ==
  IF names = <<>> THEN <<>>
  ELSE <<(<<"|", "(">> \o toUpperCase(Head(names)) \o <<")">>)>>
         \o regexPieces(Tail(names))

_getRegex(tagsNames) ==
  LET regStr == IF tagsNames # None
                  THEN staticRegStr
                       \o replaceFirst(join(regexPieces(tagsNames[1]), <<",">>), ",")
                  ELSE staticRegStr
  IN  RegExpOf(regStr)

\* The reduce step of _getTagsObject: { ...a, [v.name]: v.function }.  An
\* existing key keeps its position and takes the new function.
\* The reduce step keeping the function of the first tag of a name.
putTag_FirstWins(a, tag) ==
  IF \E i \in 1..Len(a) : a[i].name = tag.displayName
    THEN a
    ELSE Append(a, [name |-> tag.displayName, color |-> tag.color])

putTag(a, tag) ==
  LET v == [name |-> tag.displayName, color |-> tag.color]
  IN  IF \E i \in 1..Len(a) : a[i].name = v.name
        THEN [i \in 1..Len(a) |-> IF a[i].name = v.name THEN v ELSE a[i]]
        ELSE Append(a, v)

RECURSIVE reduceTags(_, _)
reduceTags(a, rest) ==
  IF rest = <<>> THEN a ELSE reduceTags(putTag(a, Head(rest)), Tail(rest))

\* _getTagsObject: Some(mapping), or None when a color is not hex and the
\* method throws.  A tag function is the pair (displayName, color) that its
\* closure captures.
_getTagsObject(tagList) ==
  IF \E i \in 1..Len(tagList) : ~isHex(tagList[i].color)
    THEN None
    ELSE Some(reduceTags(<<>>, tagList))

----------------------------------------------------------------------------
(* The configurations, persisted values and operator entries explored.     *)

\* IConsolerParams.tags: undefined, or a list of tags.  Among them: a name
\* that is a substring of a built-in name, the same name twice, three
\* distinct names, a name with a regular-expression character, and a color
\* that is not hex.
TagLists ==
  { None,
    Some(<<[displayName |-> <<"r","o","r">>, color |-> <<"#","f","f","f">>]>>),
    Some(<<[displayName |-> <<"d","b">>, color |-> <<"#","f","f","f">>],
           [displayName |-> <<"d","b">>, color |-> <<"#","0","0","0","0","0","0">>]>>),
    Some(<<[displayName |-> <<"u","i">>, color |-> <<"#","f","f","f">>],
           [displayName |-> <<"d","b">>, color |-> <<"0","a","f">>],
           [displayName |-> <<"n","e","t">>, color |-> <<"#","1","9","c","7","2","0">>]>>),
    Some(<<[displayName |-> <<"x",".","y">>, color |-> <<"#","f","f","f">>]>>),
    Some(<<[displayName |-> <<"u","i">>, color |-> <<"#","f","f","f">>],
           [displayName |-> <<"d","b">>, color |-> <<"n","o","t","-","a","-","c","o","l","o","r">>]>>) }

\* IConsolerParams.defaultDeveloperMode.
DefaultModes ==
  { <<>>,
    <<WARN, ERROR>>,
    <<<<"i","n","f","o">>>> }

\* IConsolerParams.password and what the operator may type at the password
\* prompt; Cancelled is the null that prompt returns when dismissed.
Password == "secret"
Cancelled == "<null>"
Secrets == {Password, "guess", Cancelled}

\* Constructor parameters together with process.env.NODE_ENV.
Configs ==
  [ password : {Password},
    defaultDeveloperMode : DefaultModes,
    tags : TagLists,
    onMessageCallback : BOOLEAN,
    development : BOOLEAN ]

\* Values of the "verbose" entry that exist before the page loads or that
\* another tab of the same origin stores: no entry, the empty string, and
\* lists in either letter case.
ForeignValues ==
  { None,
    Some(<<>>),
    Some(ERROR),
    Some(<<"s","u","c","c","e","s","s",",","i","n","f","o">>) }

\* What the operator may type at the verbosity prompt (None: dismissed).
OperatorInputs ==
  { None,
    Some(<<>>),
    Some(<<"w","a","r","n",","," ","i","n","f","o">>),
    Some(<<"b","a","n","a","n","a">>),
    Some(<<"s","u","c","c","e","s","s">>),
    Some(<<"d","b">>),
    Some(<<"d","b",",","n","e","t">>),
    Some(<<"x","z","y">>) }

\* The message argument of a dispatch call.
Messages == {"m1", "m2"}

----------------------------------------------------------------------------
(* Calls to the collaborators, recorded in the order one handler makes     *)
(* them.                                                                   *)

Event(kind, text, label, color) ==
  [kind |-> kind, text |-> text, label |-> label, color |-> color]

\* console.groupCollapsed ... console.info ... console.groupEnd of _log.
GroupCollapsed(label, color, message) == Event("groupCollapsed", message, label, color)
TraceInfo == Event("info", "Trace", <<>>, <<>>)
GroupEnd == Event("groupEnd", "", <<>>, <<>>)
\* this.callbackFunction(category, message).
Callback(category, message) == Event("callback", message, category, <<>>)
\* console.log(text): the diagnostic sink.
ConsoleLog(text) == Event("console.log", text, <<>>, <<>>)
\* prompt(text), alert(text).
Prompt(text) == Event("prompt", text, <<>>, <<>>)
Alert(text) == Event("alert", text, <<>>, <<>>)
\* localStorage.setItem("verbose", value).
SetItem(value) == Event("setItem", "verbose", value, <<>>)
\* window.location.reload().
Reload == Event("reload", "", <<>>, <<>>)
\* window.verbose = ...
InstallTrigger == Event("window.verbose", "", <<>>, <<>>)

PasswordPrompt == "Enter Your Development Password? "
VerbosePrompt == "Enter verbose mode?"

Count(events, kind) == Cardinality({i \in 1..Len(events) : events[i].kind = kind})

----------------------------------------------------------------------------
(* State.                                                                  *)

VARIABLES
  params,             \* the constructor's argument and NODE_ENV, fixed per run
  storage,            \* localStorage.getItem("verbose")
  page,               \* "loading": no instance yet; "ready": constructed;
                      \* "failed": the constructor threw
  windowVerbose,      \* window.verbose is installed
  password,           \* this.password
  callbackFunction,   \* this.callbackFunction is defined
  verboseMode,        \* this.verboseMode (None: undefined)
  isDevelopment,      \* this.isDevelopment
  isDebugModeEnable,  \* this.isDebugModeEnable
  tags,               \* this.tags (None: undefined)
  committed,          \* the match list of the latest commit, while no other
                      \* tab has written the entry since
  last                \* the latest operation: its arguments, the state it
                      \* started from and the collaborator calls it made

vars ==
  <<params, storage, page, windowVerbose, password, callbackFunction,
    verboseMode, isDevelopment, isDebugModeEnable, tags, committed, last>>

Snapshot ==
  [storage |-> storage, verboseMode |-> verboseMode,
   isDebugModeEnable |-> isDebugModeEnable, tags |-> tags,
   windowVerbose |-> windowVerbose, page |-> page]

Op(op, identifier, message, secret, input, events, threw) ==
  [op |-> op, identifier |-> identifier, message |-> message,
   secret |-> secret, input |-> input, pre |-> Snapshot,
   events |-> events, threw |-> threw]

Init ==
  /\ params \in Configs
  /\ storage \in ForeignValues
  /\ page = "loading"
  /\ windowVerbose = FALSE
  /\ password = ""
  /\ callbackFunction = FALSE
  /\ verboseMode = None
  /\ isDevelopment = FALSE
  /\ isDebugModeEnable = FALSE
  /\ tags = None
  /\ committed = None
  /\ last = [op |-> "none", identifier |-> <<>>, message |-> "",
             secret |-> "", input |-> None,
             pre |-> [storage |-> storage, verboseMode |-> None,
                      isDebugModeEnable |-> FALSE, tags |-> None,
                      windowVerbose |-> FALSE, page |-> "loading"],
             events |-> <<>>, threw |-> ""]

----------------------------------------------------------------------------
(* Dispatch: _log, _taglog and the four public methods, as the calls they  *)
(* make for a given entry, flag and callback.                              *)

\* _log: each of its three console calls is guarded by isDebugModeEnable.
_log(color, identifier, message, dbg) ==
  IF dbg
    THEN <<GroupCollapsed(identifier, color, message), TraceInfo, GroupEnd>>
    ELSE <<>>

\* _taglog with the callback call outside the gate.
_taglog_UngatedCallback(color, identifier, message, store, dbg, cb) ==
  LET tag == _searchInLocalVerbose(store, toUpperCase(identifier))
  IN  (IF tag THEN _log(color, ConsolerPrefix \o identifier, message, dbg)
              ELSE <<>>)
      \o (IF cb THEN <<Callback(toUpperCase(identifier), message)>> ELSE <<>>)

_taglog(color, identifier, message, store, dbg, cb) ==
  LET tag == _searchInLocalVerbose(store, toUpperCase(identifier))
  IN  (IF tag THEN _log(color, ConsolerPrefix \o identifier, message, dbg)
              ELSE <<>>)
      \o (IF tag /\ cb THEN <<Callback(toUpperCase(identifier), message)>>
                       ELSE <<>>)

log(message, store, dbg, cb) ==
  LET info == _searchInLocalVerbose(store, INFO)
  IN  (IF info THEN _log(InfoColor, ConsolerPrefix \o INFO, message, dbg)
               ELSE <<>>)
      \o (IF info /\ cb THEN <<Callback(INFO, message)>> ELSE <<>>)

\* warn without its callback call.
warn_NoCallback(message, store, dbg, cb) ==
  IF _searchInLocalVerbose(store, WARN)
    THEN _log(WarnColor, ConsolerPrefix \o WARN, message, dbg)
    ELSE <<>>

warn(message, store, dbg, cb) ==
  LET w == _searchInLocalVerbose(store, WARN)
  IN  (IF w THEN _log(WarnColor, ConsolerPrefix \o WARN, message, dbg)
            ELSE <<>>)
      \o (IF w /\ cb THEN <<Callback(WARN, message)>> ELSE <<>>)

error(message, store, dbg, cb) ==
  LET e == _searchInLocalVerbose(store, ERROR)
  IN  (IF e THEN _log(ErrorColor, ConsolerPrefix \o ERROR, message, dbg)
            ELSE <<>>)
      \o (IF e /\ cb THEN <<Callback(ERROR, message)>> ELSE <<>>)

success(message, store, dbg, cb) ==
  LET s == _searchInLocalVerbose(store, SUCCESS)
  IN  (IF s THEN _log(SuccessColor, ConsolerPrefix \o SUCCESS, message, dbg)
            ELSE <<>>)
      \o (IF s /\ cb THEN <<Callback(SUCCESS, message)>> ELSE <<>>)

\* A dispatch call that recomputes isDebugModeEnable from the entry.
Dispatched_RefreshesFlag(op, identifier, message, events) ==
  /\ last' = Op(op, identifier, message, "", None, events, "")
  /\ isDebugModeEnable' = (_getLocalVerbose(storage) # None)
  /\ UNCHANGED <<params, storage, page, windowVerbose, password,
                 callbackFunction, verboseMode, isDevelopment, tags, committed>>

\* A dispatch call changes no field and no storage entry.
Dispatched(op, identifier, message, events) ==
  /\ last' = Op(op, identifier, message, "", None, events, "")
  /\ UNCHANGED <<params, storage, page, windowVerbose, password,
                 callbackFunction, verboseMode, isDevelopment,
                 isDebugModeEnable, tags, committed>>

Log ==
  /\ page = "ready"
  /\ \E m \in Messages :
       Dispatched("log", INFO, m,
                  log(m, storage, isDebugModeEnable, callbackFunction))

Warn ==
  /\ page = "ready"
  /\ \E m \in Messages :
       Dispatched("warn", WARN, m,
                  warn(m, storage, isDebugModeEnable, callbackFunction))

Error ==
  /\ page = "ready"
  /\ \E m \in Messages :
       Dispatched("error", ERROR, m,
                  error(m, storage, isDebugModeEnable, callbackFunction))

Success ==
  /\ page = "ready"
  /\ \E m \in Messages :
       Dispatched("success", SUCCESS, m,
                  success(m, storage, isDebugModeEnable, callbackFunction))

\* this.tags[name](message): the function built by _getTagsObject.
TagCall ==
  /\ page = "ready"
  /\ tags # None
  /\ \E i \in 1..Len(tags[1]), m \in Messages :
       Dispatched("tag", tags[1][i].name, m,
                  _taglog(tags[1][i].color, tags[1][i].name, m, storage,
                          isDebugModeEnable, callbackFunction))

----------------------------------------------------------------------------
(* Construction.                                                           *)

\* _setLocalVerbose joining with a comma and a blank.
_setLocalVerbose_SpacedJoin(mode) == join(mode, <<",", " ">>)

\* _setLocalVerbose: the value it stores under "verbose" (it also sets
\* isDebugModeEnable, which the callers below do with it).
_setLocalVerbose(mode) == join(mode, <<",">>)

\* _addDefaultValue with the test of isDebugModeEnable inverted, without
\* it, and without the test of isDevelopment.
_addDefaultValue_Inverted(dbg, dev) == dbg /\ dev
_addDefaultValue_AlwaysInDevelopment(dbg, dev) == dev
_addDefaultValue_AnyEnvironment(dbg, dev) == ~dbg

\* _addDefaultValue: whether it calls _setLocalVerbose.
_addDefaultValue(dbg, dev) == ~dbg /\ dev

\* The field initialisers, the constructor body and _setDefaultOptions, as
\* one record of everything they decide.
\*   dbg0: isDebugModeEnable as initialised (line 8)
\*   seed: _addDefaultValue stores defaultDeveloperMode
\*   lv:   _getLocalVerbose() as read by _setDefaultOptions
\*   typeError: this.verboseMode is undefined when .toString() is applied
\*   tagError:  _getTagsObject throws
construct(p, store) ==
  LET dbg0 == _getLocalVerbose(store) # None
      seed == _addDefaultValue(dbg0, p.development)
      store1 == IF seed THEN Some(_setLocalVerbose(p.defaultDeveloperMode))
                        ELSE store
      dbg1 == dbg0 \/ seed
      lv == _getLocalVerbose(store1)
      typeError == dbg1 /\ lv = None
      mode == IF dbg1
                THEN (IF lv = None THEN None ELSE Some(split(lv[1], ",")))
                ELSE Some(p.defaultDeveloperMode)
      greeting == IF dbg1 /\ ~typeError
                    THEN success(NowYouCanSee, store1, dbg1, p.onMessageCallback)
                    ELSE <<>>
      tagsObj == IF typeError \/ p.tags = None
                   THEN None
                   ELSE _getTagsObject(p.tags[1])
      tagError == ~typeError /\ p.tags # None /\ tagsObj = None
  IN  [storage |-> store1,
       isDebugModeEnable |-> dbg1,
       verboseMode |-> mode,
       tags |-> tagsObj,
       threw |-> IF typeError THEN "TypeError"
                 ELSE IF tagError THEN "Tag Color in not Hex"
                 ELSE "",
       events |-> <<InstallTrigger, ConsoleLog("verbose now accessable!")>>
                  \o (IF seed THEN <<SetItem(store1[1])>> ELSE <<>>)
                  \o greeting]

\* new Consoler(params), run when the page loads.
Constructor ==
  /\ page = "loading"
  /\ \E c \in {construct(params, storage)} :
         /\ storage' = c.storage
         /\ isDebugModeEnable' = c.isDebugModeEnable
         /\ verboseMode' = c.verboseMode
         /\ tags' = c.tags
         /\ page' = IF c.threw = "" THEN "ready" ELSE "failed"
         /\ last' = Op("constructor", <<>>, "", "", None, c.events, c.threw)
  /\ windowVerbose' = TRUE
  /\ password' = params.password
  /\ callbackFunction' = params.onMessageCallback
  /\ isDevelopment' = params.development
  /\ UNCHANGED <<params, committed>>

----------------------------------------------------------------------------
(* ConfigurationFlow: window.verbose().                                    *)

\* _autorizeDeveloper without the development bypass.
_autorizeDeveloper_NoBypass(dev, exceptedPassword, pass) ==
  pass = exceptedPassword

\* _autorizeDeveloper accepting whatever was typed.
_autorizeDeveloper_AnyEntry(dev, exceptedPassword, pass) ==
  IF dev THEN TRUE ELSE pass # Cancelled

\* _autorizeDeveloper: its result; the prompt is issued only outside
\* development.
_autorizeDeveloper(dev, exceptedPassword, pass) ==
  IF dev THEN TRUE ELSE pass = exceptedPassword

\* _getVerboseMode: the match list (verboseOptions); the empty list stands
\* for null and undefined.
_getVerboseMode(tagsObj, input) ==
  LET tagsNames == IF tagsObj # None THEN Some(tagsNamesOf(tagsObj[1])) ELSE None
      regex == _getRegex(tagsNames)
  IN  IF input = None THEN <<>> ELSE MatchAll(toUpperCase(input[1]), regex)

\* _verbose, with _setVerboseAndReload: the whole flow for one entered
\* secret and one entered verbosity string.
\* verboseOptions is consulted only when isAuthorized holds.
verboseFlow(dev, pass, isAuthorized, verboseOptions) ==
  [isAuthorized |-> isAuthorized,
   commit |-> isAuthorized /\ verboseOptions # <<>>,
   verboseOptions |-> IF isAuthorized THEN verboseOptions ELSE <<>>,
   events |->
     (IF dev THEN <<>> ELSE <<Prompt(PasswordPrompt), ConsoleLog(pass)>>)
     \o (IF isAuthorized
           THEN <<ConsoleLog("Authorized"), Prompt(VerbosePrompt)>>
                \o (IF verboseOptions # <<>>
                      THEN <<SetItem(_setLocalVerbose(verboseOptions)), Reload>>
                      ELSE <<Alert("Wrong Verbose Mode!")>>)
           ELSE <<ConsoleLog("Not Authorized")>>)]

_verbose(dev, pw, tagsObj, pass, input) ==
  verboseFlow(dev, pass, _autorizeDeveloper(dev, pw, pass),
              _getVerboseMode(tagsObj, input))

\* The operator calls window.verbose().  A secret is entered only when the
\* password prompt is shown, a verbosity string only when the second prompt
\* is shown ("" and None stand for the entries never asked).  A commit stores the matches and
\* reloads the page: the instance and the trigger are gone until the
\* constructor runs again.
Verbose ==
  /\ windowVerbose
  /\ \E pass \in (IF isDevelopment THEN {""} ELSE Secrets) :
     \E input \in (IF _autorizeDeveloper(isDevelopment, password, pass)
                     THEN OperatorInputs ELSE {None}) :
       \E v \in {_verbose(isDevelopment, password, tags, pass, input)} :
           /\ storage' = IF v.commit THEN Some(_setLocalVerbose(v.verboseOptions))
                                     ELSE storage
           /\ verboseMode' = IF v.commit THEN Some(v.verboseOptions) ELSE verboseMode
           /\ isDebugModeEnable' = (v.commit \/ isDebugModeEnable)
           /\ page' = IF v.commit THEN "loading" ELSE page
           /\ windowVerbose' = ~v.commit
           /\ committed' = IF v.commit THEN Some(v.verboseOptions) ELSE committed
           /\ last' = Op("verbose", <<>>, "",
                         pass, input,
                         v.events, "")
  /\ UNCHANGED <<params, password, callbackFunction, isDevelopment, tags>>

----------------------------------------------------------------------------
(* The environment.                                                        *)

\* Another tab or instance of the same origin stores or removes the entry.
ForeignWrite ==
  /\ \E v \in ForeignValues :
       /\ v # storage
       /\ storage' = v
  /\ committed' = None
  /\ last' = Op("foreign", <<>>, "", "", None, <<>>, "")
  /\ UNCHANGED <<params, page, windowVerbose, password, callbackFunction,
                 verboseMode, isDevelopment, isDebugModeEnable, tags>>

\* The user reloads the page.
PageReload ==
  /\ page # "loading"
  /\ page' = "loading"
  /\ windowVerbose' = FALSE
  /\ last' = Op("reload", <<>>, "", "", None, <<>>, "")
  /\ UNCHANGED <<params, storage, password, callbackFunction, verboseMode,
                 isDevelopment, isDebugModeEnable, tags, committed>>

Next ==
  \/ Constructor
  \/ Log
  \/ Warn
  \/ Error
  \/ Success
  \/ TagCall
  \/ Verbose
  \/ ForeignWrite
  \/ PageReload

Spec == Init /\ [][Next]_vars

----------------------------------------------------------------------------
(* Vocabulary of the properties.                                           *)

IsDispatch == last.op \in {"log", "warn", "error", "success", "tag"}

\* Collaborator calls of the latest operation.
Groups == Count(last.events, "groupCollapsed")
Callbacks == Count(last.events, "callback")
Prompts == Count(last.events, "prompt")
Alerts == Count(last.events, "alert")
Reloads == Count(last.events, "reload")
Writes == Count(last.events, "setItem")

\* The callback calls of the latest operation, in order.
CallbackCalls == SelectSeq(last.events, LAMBDA e : e.kind = "callback")

\* Category c is present in the persisted value v as a case-insensitive
\* contiguous substring.
Present(c, v) ==
  /\ v # None
  /\ IsSubstring(toUpperCase(c), toUpperCase(v[1]))

\* The known category names of an instance: the built-ins and the
\* registered tag names, in upper case.
KnownNames(tagsObj) ==
  {INFO, WARN, ERROR, SUCCESS}
    \cup (IF tagsObj = None THEN {}
          ELSE {toUpperCase(tagsObj[1][i].name) : i \in 1..Len(tagsObj[1])})

\* The operator's entry, in upper case, contains a known category name.
ContainsKnown(input, tagsObj) ==
  /\ input # None
  /\ \E n \in KnownNames(tagsObj) : IsSubstring(n, toUpperCase(input[1]))

\* The latest operation was a ConfigurationFlow that passed authorization.
AuthorizedFlow ==
  /\ last.op = "verbose"
  /\ (isDevelopment \/ last.secret = password)

\* The shape of a flow that ended in Committed: one write of the comma-join
\* of the match list, then one reload, and the page is loading again.
CommittedShape ==
  /\ verboseMode # None
  /\ verboseMode[1] # <<>>
  /\ storage = Some(join(verboseMode[1], <<",">>))
  /\ Writes = 1
  /\ Reloads = 1
  /\ Len(last.events) >= 2
  /\ last.events[Len(last.events) - 1] = SetItem(storage[1])
  /\ last.events[Len(last.events)] = Reload
  /\ page = "loading"

\* The shape of a flow that ended in Invalid.
InvalidShape ==
  /\ Alerts = 1
  /\ storage = last.pre.storage
  /\ verboseMode = last.pre.verboseMode
  /\ Writes = 0
  /\ Reloads = 0
  /\ page = last.pre.page

----------------------------------------------------------------------------
(* Properties.                                                             *)

\* C1: a dispatch of a category for which contains() is false at the time
\* of the call (also when nothing is persisted) makes no display call and
\* no callback call; the same holds for the success call the constructor
\* makes itself.
C1_GatedDispatchIsSilent ==
  /\ (IsDispatch /\ ~_searchInLocalVerbose(last.pre.storage, last.identifier))
       => (Groups = 0 /\ Callbacks = 0)
  /\ (last.op = "constructor" /\ ~_searchInLocalVerbose(storage, SUCCESS))
       => (Groups = 0 /\ Callbacks = 0)

\* C1 witness: with a callback configured and a value persisted, a tag that
\* the value does not contain is dispatched.
C1_Witness ==
  /\ last.op = "tag"
  /\ callbackFunction
  /\ isDebugModeEnable
  /\ last.pre.storage = Some(ERROR)
  /\ ~_searchInLocalVerbose(last.pre.storage, last.identifier)

\* C2 (as claimed): a dispatch of a category present in the persisted value
\* makes exactly one display emission and, with a callback configured,
\* exactly one callback call with (uppercase(C), message).
C2_PresentDispatchEmitsOnce ==
  (IsDispatch /\ Present(last.identifier, last.pre.storage))
    => /\ Groups = 1
       /\ callbackFunction
            => CallbackCalls = <<Callback(toUpperCase(last.identifier), last.message)>>

\* C3 (as claimed): an authorized flow whose entry contains a known category
\* name ends in Committed.
C3_KnownEntryCommits ==
  (AuthorizedFlow /\ ContainsKnown(last.input, tags)) => CommittedShape

\* C4 (as claimed): an authorized flow whose entry contains no known
\* category name, or whose prompt was dismissed, ends in Invalid.
C4_UnknownEntryIsInvalid ==
  (AuthorizedFlow /\ ~ContainsKnown(last.input, tags)) => InvalidShape

\* C5: outside development a flow whose entered secret is not the password
\* shows only the password prompt, raises no alert, writes nothing and does
\* not reload; and outside development the class writes the entry only in a
\* flow whose entered secret is the password.
C5_WrongSecretChangesNothing ==
  /\ (last.op = "verbose" /\ ~params.development /\ last.secret # params.password)
       => /\ last.events = <<Prompt(PasswordPrompt), ConsoleLog(last.secret),
                             ConsoleLog("Not Authorized")>>
          /\ storage = last.pre.storage
          /\ page = last.pre.page
  /\ (~params.development /\ last.op # "foreign"
        /\ (Writes > 0 \/ storage # last.pre.storage))
       => (last.op = "verbose" /\ last.secret = params.password)

\* C5 witness: outside development, with a value persisted, the operator
\* types a wrong secret.
C5_Witness ==
  /\ last.op = "verbose"
  /\ ~params.development
  /\ last.secret = "guess"
  /\ last.pre.storage = Some(ERROR)

\* C6: in development, with no persisted entry, the constructor stores the
\* comma-join of defaultDeveloperMode and calls neither prompt nor alert.
C6_DevelopmentAutoSeed ==
  (last.op = "constructor" /\ params.development /\ last.pre.storage = None)
    => /\ storage = Some(join(params.defaultDeveloperMode, <<",">>))
       /\ Prompts = 0
       /\ Alerts = 0

\* C6 witness: such a construction with a non-empty defaultDeveloperMode.
C6_Witness ==
  /\ last.op = "constructor"
  /\ params.development
  /\ last.pre.storage = None
  /\ params.defaultDeveloperMode = <<WARN, ERROR>>
  /\ storage # None

\* C7: after a flow committed the match list M, the next construction finds
\* the entry equal to the comma-join of M, leaves it as it is and calls no
\* prompt; a later dispatch of a category in M makes a display emission.
C7_CommitSurvivesReload ==
  /\ (last.op = "constructor" /\ committed # None)
       => /\ storage = Some(join(committed[1], <<",">>))
          /\ storage = last.pre.storage
          /\ Writes = 0
          /\ Prompts = 0
  /\ (IsDispatch /\ committed # None
        /\ \E k \in 1..Len(committed[1]) :
             committed[1][k] = toUpperCase(last.identifier))
       => Groups = 1

\* C7 witness: in development with a non-empty defaultDeveloperMode, after a
\* commit and the construction that follows it, a category of the committed
\* list is dispatched.
C7_Witness ==
  /\ IsDispatch
  /\ committed # None
  /\ \E k \in 1..Len(committed[1]) :
       committed[1][k] = toUpperCase(last.identifier)
  /\ params.development
  /\ params.defaultDeveloperMode = <<WARN, ERROR>>
  /\ storage # Some(join(params.defaultDeveloperMode, <<",">>))

\* Some tag of the configuration has a color that is not hex.
HasBadColor ==
  /\ params.tags # None
  /\ \E i \in 1..Len(params.tags[1]) : ~isHex(params.tags[1][i].color)

\* C8 (as claimed): a construction with a tag color that is not hex fails,
\* produces no tags mapping, and makes no display emission and no callback
\* call.
C8_BadColorFailsBeforeAnyDispatch ==
  (last.op = "constructor" /\ HasBadColor)
    => /\ last.threw # ""
       /\ page = "failed"
       /\ tags = None
       /\ Groups = 0
       /\ Callbacks = 0

\* C9 (as claimed): the constructor leaves the entry unchanged whenever an
\* entry exists or the environment is not development.
C9_ConstructionKeepsExistingEntry ==
  (last.op = "constructor" /\ (last.pre.storage # None \/ ~params.development))
    => storage = last.pre.storage

\* C9 (amended): the constructor leaves the entry unchanged whenever a
\* non-empty entry exists or the environment is not development; it writes
\* only in development when the entry is missing or the empty string, and
\* then it writes the comma-join of defaultDeveloperMode.
C9_ConstructionKeepsNonEmptyEntry ==
  /\ (last.op = "constructor"
        /\ (last.pre.storage \notin {None, Some(<<>>)} \/ ~params.development))
       => (storage = last.pre.storage /\ Writes = 0)
  /\ (last.op = "constructor" /\ (Writes > 0 \/ storage # last.pre.storage))
       => /\ params.development
          /\ last.pre.storage \in {None, Some(<<>>)}
          /\ storage = Some(join(params.defaultDeveloperMode, <<",">>))

\* C9 witness: a construction in development that finds a non-empty entry
\* different from the comma-join of a non-empty defaultDeveloperMode.
C9_Witness ==
  /\ last.op = "constructor"
  /\ params.development
  /\ last.pre.storage = Some(ERROR)
  /\ params.defaultDeveloperMode = <<WARN, ERROR>>

\* C10 (as claimed): for every category q of a constructed instance,
\* contains(q) is true iff an entry exists and uppercase(q) is a contiguous
\* substring of the entry in upper case.
C10_ContainsIsSubstringTest ==
  page = "ready"
    => \A q \in KnownNames(tags) :
         _searchInLocalVerbose(storage, q) <=> Present(q, storage)

\* L is a non-empty list of non-empty, upper-case, comma-free tokens.
IsCanonicalList(L) ==
  /\ L # <<>>
  /\ \A k \in 1..Len(L) :
       /\ L[k] # <<>>
       /\ toUpperCase(L[k]) = L[k]
       /\ \A j \in 1..Len(L[k]) : L[k][j] # ","

\* The list the class handed to _setLocalVerbose in the latest operation:
\* the match list in a flow, defaultDeveloperMode in a construction.
ListJustSet ==
  IF last.op = "verbose" THEN verboseMode[1] ELSE params.defaultDeveloperMode

\* C11: after the class stored a list L of non-empty, upper-case, comma-free
\* tokens, the entry read back, in upper case and split on ",", is L; the
\* constructor that stored L reads exactly L back into verboseMode.
C11_SetGetRoundTrip ==
  (last.op \in {"constructor", "verbose"} /\ Writes > 0
     /\ IsCanonicalList(ListJustSet))
    => /\ _getLocalVerbose(storage) # None
       /\ split(toUpperCase(_getLocalVerbose(storage)[1]), ",") = ListJustSet
       /\ last.op = "constructor" => verboseMode = Some(ListJustSet)

\* C11 witness: the constructor stored ["WARN", "ERROR"].
C11_Witness ==
  /\ last.op = "constructor"
  /\ Writes = 1
  /\ ListJustSet = <<WARN, ERROR>>

\* The color of the last tag named name in the configured list.
LastColorOf(tagList, name) ==
  tagList[CHOOSE i \in 1..Len(tagList) :
            /\ tagList[i].displayName = name
            /\ \A j \in (i + 1)..Len(tagList) : tagList[j].displayName # name].color

\* The groupCollapsed calls of the latest operation, in order.
GroupCalls == SelectSeq(last.events, LAMBDA e : e.kind = "groupCollapsed")

\* C12: the tags mapping of a constructed instance has one entry per
\* displayName, with the color of the last tag of that name; a displayed tag
\* call uses that color.
C12_LastTagWins ==
  /\ (page = "ready" /\ tags # None)
       => \A i \in 1..Len(params.tags[1]) :
            LET n == params.tags[1][i].displayName
            IN  /\ Cardinality({k \in 1..Len(tags[1]) : tags[1][k].name = n}) = 1
                /\ \A k \in 1..Len(tags[1]) :
                     tags[1][k].name = n
                       => tags[1][k].color = LastColorOf(params.tags[1], n)
  /\ (last.op = "tag" /\ Groups = 1)
       => GroupCalls[1].color = LastColorOf(params.tags[1], last.identifier)

\* C12 witness: with two tags of the same displayName and different colors
\* configured, a call of that tag is displayed.
C12_Witness ==
  /\ last.op = "tag"
  /\ Groups = 1
  /\ Len(params.tags[1]) = 2
  /\ params.tags[1][1].displayName = last.identifier
  /\ params.tags[1][2].displayName = last.identifier
  /\ params.tags[1][1].color # params.tags[1][2].color

\* C13 (as claimed): every value the class itself stores, by auto-seed or
\* by commit, is in upper case.
C13_StoredValueIsUpperCase ==
  (last.op \in {"constructor", "verbose"} /\ Writes > 0)
    => storage[1] = toUpperCase(storage[1])

\* The letters a-z and A-Z.
Letters == DOMAIN UpperOf \cup {UpperOf[c] : c \in DOMAIN UpperOf}

\* Every registered tag name consists of letters only.
AlphabeticTags(tagsObj) ==
  \A i \in 1..Len(tagsObj[1]) :
    \A k \in 1..Len(tagsObj[1][i].name) : tagsObj[1][i].name[k] \in Letters

\* The known category names in the order of the prompt's alternation: the
\* built-ins, then the registered tag names in upper case.
RECURSIVE upperNames(_)
upperNames(tagsObj) ==
  IF tagsObj = <<>> THEN <<>>
  ELSE <<toUpperCase(Head(tagsObj).name)>> \o upperNames(Tail(tagsObj))
KnownList(tagsObj) ==
  <<INFO, WARN, SUCCESS, ERROR>>
    \o (IF tagsObj = None THEN <<>> ELSE upperNames(tagsObj[1]))

\* Name n stands in s at position i, character for character.
StandsAt(n, s, i) ==
  /\ i + Len(n) - 1 <= Len(s)
  /\ \A k \in 1..Len(n) : s[i + k - 1] = n[k]

\* The left-to-right, non-overlapping occurrences of the names in s.
RECURSIVE occurrencesFrom(_, _, _)
occurrencesFrom(s, names, i) ==
  IF i > Len(s) THEN <<>>
  ELSE IF \E a \in 1..Len(names) : StandsAt(names[a], s, i)
    THEN LET a == CHOOSE a \in 1..Len(names) :
                    /\ StandsAt(names[a], s, i)
                    /\ \A b \in 1..(a - 1) : ~StandsAt(names[b], s, i)
         IN  <<names[a]>> \o occurrencesFrom(s, names, i + Len(names[a]))
    ELSE occurrencesFrom(s, names, i + 1)
Occurrences(s, names) == occurrencesFrom(s, names, 1)

\* C14 (as claimed): with letters-only tag names, for any number of tags,
\* an authorized flow commits exactly the left-to-right occurrences of the
\* known category names in the upper-cased entry, and alerts only when there
\* is none.
C14_MatchListIsOccurrences ==
  (AuthorizedFlow /\ last.input # None /\ (tags = None \/ AlphabeticTags(tags)))
    => /\ Reloads = 1
            => verboseMode = Some(Occurrences(toUpperCase(last.input[1]),
                                              KnownList(tags)))
       /\ Reloads = 0
            => Occurrences(toUpperCase(last.input[1]), KnownList(tags)) = <<>>

\* C15 (as claimed): in every state of a constructed instance,
\* isDebugModeEnable is true iff _getLocalVerbose() is not undefined.
C15_DebugFlagTracksEntry ==
  page = "ready" => (isDebugModeEnable <=> _getLocalVerbose(storage) # None)

\* The password prompts of the latest operation.
PasswordPrompts ==
  Cardinality({i \in 1..Len(last.events) : last.events[i] = Prompt(PasswordPrompt)})

\* C16: in development a flow passes authorization without a password
\* prompt; otherwise it starts with exactly one password prompt and passes
\* iff the entered secret equals the password (a dismissed prompt fails).
C16_AuthGate ==
  last.op = "verbose"
    => IF isDevelopment
         THEN /\ PasswordPrompts = 0
              /\ last.events[1] = ConsoleLog("Authorized")
         ELSE /\ PasswordPrompts = 1
              /\ last.events[1] = Prompt(PasswordPrompt)
              /\ last.events[2] = ConsoleLog(last.secret)
              /\ IF last.secret = password
                   THEN last.events[3] = ConsoleLog("Authorized")
                   ELSE /\ last.events[3] = ConsoleLog("Not Authorized")
                        /\ Len(last.events) = 3

\* C16 witness: outside development the password prompt is dismissed.
C16_Witness ==
  /\ last.op = "verbose"
  /\ ~isDevelopment
  /\ last.secret = Cancelled

\* C17: a dispatch call, accepted or gated, leaves the entry, verboseMode,
\* isDebugModeEnable and the tags mapping as they were and calls neither
\* prompt, alert, reload nor setItem; prompt and alert are called only in a
\* flow started through window.verbose.
C17_DispatchChangesNothing ==
  /\ IsDispatch
       => /\ storage = last.pre.storage
          /\ verboseMode = last.pre.verboseMode
          /\ isDebugModeEnable = last.pre.isDebugModeEnable
          /\ tags = last.pre.tags
          /\ page = last.pre.page
          /\ Prompts = 0 /\ Alerts = 0 /\ Reloads = 0 /\ Writes = 0
  /\ (Prompts > 0 \/ Alerts > 0) => last.op = "verbose"

\* C17 witness: a dispatch whose category the entry contains while the
\* instance's isDebugModeEnable is still false.
C17_Witness ==
  /\ IsDispatch
  /\ _searchInLocalVerbose(last.pre.storage, last.identifier)
  /\ ~last.pre.isDebugModeEnable

\* C18 (as claimed): with a callback configured, a caller's dispatch makes
\* one callback call iff its category is enabled at the call, and no other
\* operation (construction, ConfigurationFlow) makes a callback call.
C18_CallbackOnlyOnCallerDispatch ==
  /\ (IsDispatch /\ callbackFunction)
       => Callbacks = IF _searchInLocalVerbose(last.pre.storage, last.identifier)
                        THEN 1 ELSE 0
  /\ ~IsDispatch => Callbacks = 0

\* C18 (amended): as claimed, except that the constructor makes one callback
\* call ("SUCCESS", greeting) when the entry it leaves contains SUCCESS.
C18_CallbackOncePerAcceptedDispatch ==
  /\ IsDispatch
       => CallbackCalls =
            IF callbackFunction
                 /\ _searchInLocalVerbose(last.pre.storage, last.identifier)
              THEN <<Callback(toUpperCase(last.identifier), last.message)>>
              ELSE <<>>
  /\ last.op = "constructor"
       => CallbackCalls =
            IF params.onMessageCallback /\ _searchInLocalVerbose(storage, SUCCESS)
              THEN <<Callback(SUCCESS, NowYouCanSee)>>
              ELSE <<>>
  /\ (~IsDispatch /\ last.op # "constructor") => Callbacks = 0

\* C18 witness: a construction that completes and calls the callback.
C18_Witness ==
  /\ last.op = "constructor"
  /\ last.threw = ""
  /\ Callbacks = 1

\* C19 (as claimed): a construction without a non-hex tag color completes
\* without error, whatever the environment, defaultDeveloperMode and prior
\* entry.
C19_ConstructionCompletes ==
  (last.op = "constructor" /\ ~HasBadColor)
    => (last.threw = "" /\ page = "ready")

\* C20 (as claimed): a construction that fails on a tag color leaves the
\* entry as it was and does not install window.verbose, so that no
\* ConfigurationFlow can start.
C20_FailedConstructionLeavesNoTrace ==
  (last.op = "constructor" /\ last.threw = "Tag Color in not Hex")
    => /\ storage = last.pre.storage
       /\ Writes = 0
       /\ windowVerbose = last.pre.windowVerbose
       /\ ~ENABLED Verbose

====
